---- MODULE Spec2Model ----
(***************************************************************************)
(* stock-tui: the state orchestrator (internal/app/app.go), the chart and  *)
(* watchlist panes it drives, and the fetch client (internal/data/http.go) *)
(***************************************************************************)
EXTENDS Integers, Sequences, FiniteSets, Bags, TLC

VARIABLES
    cfg,        \* models.AppConfig: Symbols, DefaultRange
    m,          \* AppModel: watchlist, chart, help, width, height, timeRange, lastHistory, err
    pending,    \* bag of commands the runtime is running: fetches, timers, the tick wait
    startup,    \* the closures of fetchAllHistory, one per watchlist symbol
    quit,       \* tea.Quit was returned
    histIssued, \* number of history requests started after startup
    f,          \* one call of data.fetch: options, loop position, log of requests and sleeps
    rc          \* one call of chart.Model.render: the series, the pane's size

vars == <<cfg, m, pending, startup, quit, histIssued, f, rc>>

-----------------------------------------------------------------------------
(* Bounds of the model *)

\* history requests started after the startup requests
MaxHistReq == 1
\* quotes requests in flight at once
MaxQuotes == 1

-----------------------------------------------------------------------------
(* Program constants *)

\* cycleTimeRange: models.Range1H, Range24H, Range7D, Range30D
Ranges == <<"1H", "24H", "7D", "30D">>
RangeSet == {Ranges[i] : i \in 1..Len(Ranges)}
\* len(chartTypeNames)
NumChartTypes == 3

\* configurations the program is started with
WatchLists == {<<"AAPL", "BTC">>}
DefaultRanges == {"7D"}
\* retry-after durations (seconds) a provider attaches to a RateLimitError
Delays == {10}
\* the terminal size reported by tea.WindowSizeMsg
TermW == 80
TermH == 24

SymbolSet == {"AAPL", "BTC"}
Keys == SymbolSet \X RangeSet

NoErr == [kind |-> "none", d |-> 0]
RateLimitError(d) == [kind |-> "ratelimit", d |-> d]
OtherError == [kind |-> "other", d |-> 0]

\* a nil []models.Candle
NoData == [sym |-> "", tr |-> "", v |-> 0, closes |-> <<>>]
\* the closes of the candles the provider has for a symbol
ProviderCloses(sym) == IF sym = "AAPL" THEN <<2, 3>> ELSE <<4, 3>>
\* the series the provider returns for GetHistory(sym, tr) to the request numbered v
Series(sym, tr, v) == [sym |-> sym, tr |-> tr, v |-> v, closes |-> ProviderCloses(sym)]

-----------------------------------------------------------------------------
(* Messages *)

NoMsg == [t |-> "none", k |-> "", x |-> 0, y |-> 0, sym |-> "", tr |-> "",
          err |-> NoErr, data |-> NoData]
KeyMsg(k) == [NoMsg EXCEPT !.t = "key", !.k = k]
\* a left button press at (x, y)
MouseMsg(x, y) == [NoMsg EXCEPT !.t = "mouse", !.x = x, !.y = y]
WindowSizeMsg(w, h) == [NoMsg EXCEPT !.t = "resize", !.x = w, !.y = h]
tickMsg == [NoMsg EXCEPT !.t = "tick"]
quotesMsg(err) == [NoMsg EXCEPT !.t = "quotes", !.err = err]
historyMsg(sym, tr, data, err) ==
    [NoMsg EXCEPT !.t = "history", !.sym = sym, !.tr = tr, !.data = data, !.err = err]
retryHistoryMsg(sym, tr) == [NoMsg EXCEPT !.t = "retry", !.sym = sym, !.tr = tr]

(* Commands handed to the runtime *)
NoCmd == [c |-> "none", sym |-> "", tr |-> "", d |-> 0, id |-> 0]
fetchQuotes == [NoCmd EXCEPT !.c = "quotes"]
fetchHistory(sym, tr) == [NoCmd EXCEPT !.c = "history", !.sym = sym, !.tr = tr]
waitForTick == [NoCmd EXCEPT !.c = "tick"]
\* tea.Tick(d, ...) delivering retryHistoryMsg{sym, tr}
RetryTick(sym, tr, d) == [NoCmd EXCEPT !.c = "retry", !.sym = sym, !.tr = tr, !.d = d]

-----------------------------------------------------------------------------
(* chart.Model *)

chartNew == [symbol |-> "", timeRange |-> "24H", chartType |-> 0, data |-> NoData,
             loading |-> FALSE, err |-> NoErr, stale |-> FALSE, retryAfter |-> 0]

SetData(c, symbol, tr, data) ==
    [c EXCEPT !.symbol = symbol, !.timeRange = tr, !.data = data,
              !.loading = FALSE, !.err = NoErr, !.stale = FALSE, !.retryAfter = 0]

SetStale(c, retryAfter) ==
    [c EXCEPT !.stale = TRUE, !.retryAfter = retryAfter, !.loading = FALSE, !.err = NoErr]

SetLoading(c, loading) == [c EXCEPT !.loading = loading]

SetError(c, err) == [c EXCEPT !.err = err, !.loading = FALSE, !.stale = FALSE]

CycleChartType(c) == [c EXCEPT !.chartType = (@ + 1) % NumChartTypes]

-----------------------------------------------------------------------------
(* watchlist.Model: the list's items are cfg.Symbols, index is the list cursor *)

\* an item's price and changePct: zero, the values of a quote, or a close and the
\* fraction num / den computed from two closes
NoQuote == [price |-> [src |-> "zero", v |-> 0],
            changePct |-> [src |-> "zero", num |-> 0, den |-> 1]]
QuoteOf(s) == [price |-> [src |-> "quote", v |-> 0],
               changePct |-> [src |-> "quote", num |-> 0, den |-> 1]]
watchlistNew == [index |-> 0, width |-> 0, height |-> 0, listHeight |-> 0,
                 items |-> [s \in SymbolSet |-> NoQuote]]

\* UpdateQuotes, for quotes of the symbols quoted
UpdateQuotes(wl, quoted) ==
    [wl EXCEPT !.items = [s \in DOMAIN @ |->
                            IF s \in quoted THEN QuoteOf(s) ELSE @[s]]]

\* UpdatePriceChange: the item of symbol gets the price, and for a positive startPrice
\* changePct = (currentPrice - startPrice) / startPrice * 100
UpdatePriceChange(wl, symbol, currentPrice, startPrice) ==
    [wl EXCEPT !.items = [s \in DOMAIN @ |->
        IF s = symbol
        THEN [price |-> [src |-> "history", v |-> currentPrice],
              changePct |-> IF startPrice > 0
                            THEN [src |-> "history",
                                  num |-> (currentPrice - startPrice) * 100, den |-> startPrice]
                            ELSE @[s].changePct]
        ELSE @[s]]]

SelectedSymbol(wl, symbols) ==
    IF wl.index >= 0 /\ wl.index < Len(symbols) THEN symbols[wl.index + 1] ELSE ""

\* SetSize: the pane's size, and list.SetSize(w-4, h-2)
watchlistSetSize(wl, w, h) ==
    [wl EXCEPT !.width = w, !.height = h, !.listHeight = h - 2]

\* list.Update: the cursor keys of the list widget move the cursor within the items
listUpdate(wl, msg, symbols) ==
    IF msg.t = "key" /\ msg.k = "down" /\ wl.index + 1 < Len(symbols)
    THEN [wl EXCEPT !.index = @ + 1]
    ELSE IF msg.t = "key" /\ msg.k = "up" /\ wl.index > 0
    THEN [wl EXCEPT !.index = @ - 1]
    ELSE wl

\* Update: a left press inside the list's rows selects the row; then list.Update
watchlistUpdate(wl, msg, symbols) ==
    LET topOffset == (wl.height - wl.listHeight) \div 2
        index == msg.y - topOffset
        clicked ==
            /\ msg.t = "mouse"
            /\ msg.x >= 0 /\ msg.x < wl.width /\ msg.y >= 0 /\ msg.y < wl.height
            /\ wl.listHeight > 0 /\ wl.listHeight <= wl.height
            /\ msg.y >= topOffset /\ msg.y < topOffset + wl.listHeight
            /\ index >= 0 /\ index < Len(symbols)
        wl1 == IF clicked THEN [wl EXCEPT !.index = index] ELSE wl
    IN listUpdate(wl1, msg, symbols)

-----------------------------------------------------------------------------
(* help.Model *)

\* help.Update: the overlay is closed by "?" and "esc"
helpUpdate(visible, msg) ==
    IF msg.t = "key" /\ msg.k \in {"?", "esc"} THEN FALSE ELSE visible

-----------------------------------------------------------------------------
(* AppModel *)

\* cacheKey := symbol + "|" + string(tr); no TimeRange contains "|", so the string
\* determines the pair
cacheKey(symbol, tr) == <<symbol, tr>>

Cached(mm, symbol, tr) == cacheKey(symbol, tr) \in DOMAIN mm.lastHistory

\* what Update returns: the model, the batched commands, and whether tea.Quit is among them
Ret(mm, cmds) == [m |-> mm, cmds |-> cmds, quit |-> FALSE]

\* New
New(c) ==
    [watchlist |-> watchlistNew, chart |-> chartNew, help |-> FALSE,
     width |-> 0, height |-> 0,
     timeRange |-> IF c.DefaultRange \in {"1H", "7D", "30D"} THEN c.DefaultRange ELSE "24H",
     lastHistory |-> <<>>, err |-> NoErr]

RangeIndex(tr) == CHOOSE i \in 1..Len(Ranges) : Ranges[i] = tr

cycleTimeRange(mm) ==
    IF mm.timeRange \in RangeSet
    THEN [mm EXCEPT !.timeRange = Ranges[(RangeIndex(mm.timeRange) % Len(Ranges)) + 1]]
    ELSE mm

setTimeRange(mm, tr) ==
    IF mm.timeRange = tr THEN mm ELSE [mm EXCEPT !.timeRange = tr]

\* a refresh that is served from the cache when the key is cached
refreshFromCache(mm, symbols) ==
    LET sel == SelectedSymbol(mm.watchlist, symbols) IN
    IF sel = "" THEN Ret(mm, <<>>)
    ELSE IF Cached(mm, sel, mm.timeRange)
    THEN Ret([mm EXCEPT !.chart =
                 SetData(@, sel, mm.timeRange, mm.lastHistory[cacheKey(sel, mm.timeRange)])],
             <<>>)
    ELSE Ret([mm EXCEPT !.chart = SetLoading(@, TRUE)], <<fetchHistory(sel, mm.timeRange)>>)

refreshCurrentChart(mm, symbols) ==
    LET sel == SelectedSymbol(mm.watchlist, symbols) IN
    IF sel = "" THEN Ret(mm, <<>>)
    ELSE Ret([mm EXCEPT !.chart = SetLoading(@, TRUE)], <<fetchHistory(sel, mm.timeRange)>>)

loadCurrentChart(mm, symbols) ==
    LET sel == SelectedSymbol(mm.watchlist, symbols) IN
    IF sel = "" THEN Ret(mm, <<>>)
    ELSE IF Cached(mm, sel, mm.timeRange)
    THEN Ret([mm EXCEPT !.chart =
                 SetData(@, sel, mm.timeRange, mm.lastHistory[cacheKey(sel, mm.timeRange)])],
             <<>>)
    ELSE Ret([mm EXCEPT !.chart = SetLoading(@, TRUE)], <<fetchHistory(sel, mm.timeRange)>>)

\* Update while the help overlay is visible: the message goes to help.Update only
UpdateHelp(mm, msg) ==
    LET visible == helpUpdate(mm.help, msg)
        m1 == [mm EXCEPT !.help = visible]
    IN IF ~visible THEN Ret(m1, <<>>)
       ELSE IF msg.t = "key" /\ msg.k \notin {"?", "esc"} THEN Ret(m1, <<>>)
       ELSE IF msg.t = "resize" THEN Ret([m1 EXCEPT !.width = msg.x, !.height = msg.y], <<>>)
       ELSE Ret(m1, <<>>)

\* Update, case tea.MouseMsg: a left press on the footer row cycles the range
UpdateFooterClick(mm, symbols) == refreshCurrentChart(cycleTimeRange(mm), symbols)

\* Update, case tea.WindowSizeMsg
UpdateResize(mm, msg) ==
    LET mainHeight == msg.y - 1
        w28 == (msg.x * 28) \div 100
        wlWidth == IF w28 < 30 THEN 30 ELSE IF w28 > 45 THEN 45 ELSE w28
    IN [mm EXCEPT !.width = msg.x, !.height = msg.y,
                  !.watchlist = watchlistSetSize(@, wlWidth, mainHeight)]

\* Update, case quotesMsg
UpdateQuotesMsg(mm, msg, symbols) ==
    IF msg.err # NoErr THEN Ret([mm EXCEPT !.err = msg.err], <<>>)
    ELSE LET m1 == [mm EXCEPT !.err = NoErr, !.watchlist = UpdateQuotes(@, SymbolSet)]
             sel == SelectedSymbol(m1.watchlist, symbols)
         IN IF sel # "" /\ ~Cached(m1, sel, m1.timeRange)
            THEN Ret([m1 EXCEPT !.chart = SetLoading(@, TRUE)],
                     <<fetchHistory(sel, m1.timeRange)>>)
            ELSE Ret(m1, <<>>)

\* Update, case retryHistoryMsg
UpdateRetry(mm, msg, symbols) ==
    LET m1 == IF SelectedSymbol(mm.watchlist, symbols) = msg.sym /\ mm.timeRange = msg.tr
              THEN [mm EXCEPT !.chart = SetLoading(@, TRUE)]
              ELSE mm
    IN Ret(m1, <<fetchHistory(msg.sym, msg.tr)>>)

\* Update, case historyMsg with a *data.RateLimitError: returns at once
UpdateHistoryRateLimited(mm, msg, symbols) ==
    LET key == cacheKey(msg.sym, msg.tr)
        current == SelectedSymbol(mm.watchlist, symbols) = msg.sym /\ mm.timeRange = msg.tr
        m1 == IF key \in DOMAIN mm.lastHistory
              THEN IF current
                   THEN [mm EXCEPT !.chart =
                            SetStale(SetData(@, msg.sym, msg.tr, mm.lastHistory[key]), msg.err.d)]
                   ELSE mm
              ELSE [mm EXCEPT !.chart = SetError(@, msg.err)]
    IN Ret(m1, <<RetryTick(msg.sym, msg.tr, msg.err.d)>>)

\* a failure handler that also drops the failed key from the cache
UpdateHistoryErrorEvicting(mm, msg) ==
    [mm EXCEPT !.chart = SetError(@, msg.err),
               !.lastHistory = [k \in DOMAIN @ \ {cacheKey(msg.sym, msg.tr)} |-> @[k]]]

\* Update, case historyMsg with any other error
UpdateHistoryError(mm, msg) == [mm EXCEPT !.chart = SetError(@, msg.err)]

\* a store under the key of the current selection instead of the message's key
StoreKeyOfSelection(mm, msg, symbols) ==
    cacheKey(SelectedSymbol(mm.watchlist, symbols), mm.timeRange)

\* the key under which a successful historyMsg is stored
StoreKey(mm, msg, symbols) == cacheKey(msg.sym, msg.tr)

\* Update, case historyMsg without error
UpdateHistoryOk(mm, msg, symbols) ==
    LET key == StoreKey(mm, msg, symbols)
        m1 == [mm EXCEPT !.lastHistory = (key :> msg.data) @@ @]
        m2 == IF SelectedSymbol(m1.watchlist, symbols) = msg.sym /\ m1.timeRange = msg.tr
              THEN [m1 EXCEPT !.chart = SetData(@, msg.sym, msg.tr, msg.data)]
              ELSE m1
        closes == msg.data.closes
    IN IF Len(closes) > 1
       THEN [m2 EXCEPT !.watchlist = UpdatePriceChange(@, msg.sym, closes[Len(closes)], closes[1])]
       ELSE m2

\* Update, after the switch: the watchlist gets the message, and a changed selection is
\* presented from the cache or fetched
UpdateTail(mm, msg, cmds, symbols) ==
    LET oldSel == SelectedSymbol(mm.watchlist, symbols)
        m1 == [mm EXCEPT !.watchlist = watchlistUpdate(@, msg, symbols)]
        newSel == SelectedSymbol(m1.watchlist, symbols)
    IN IF oldSel # newSel /\ newSel # ""
       THEN IF Cached(m1, newSel, m1.timeRange)
            THEN Ret([m1 EXCEPT !.chart =
                         SetData(@, newSel, m1.timeRange,
                                 m1.lastHistory[cacheKey(newSel, m1.timeRange)])],
                     cmds)
            ELSE Ret([m1 EXCEPT !.chart = SetLoading(@, TRUE)],
                     cmds \o <<fetchHistory(newSel, m1.timeRange)>>)
       ELSE Ret(m1, cmds)

\* Update, case tea.KeyMsg, for the keys that return at once
UpdateKey(mm, msg, symbols) ==
    CASE msg.k \in {"q", "ctrl+c"} -> [Ret(mm, <<>>) EXCEPT !.quit = TRUE]
      [] msg.k = "?" -> Ret([mm EXCEPT !.help = ~@], <<>>)
      [] msg.k = "tab" -> loadCurrentChart(cycleTimeRange(mm), symbols)
      [] msg.k = "1" -> loadCurrentChart(setTimeRange(mm, "1H"), symbols)
      [] msg.k = "2" -> loadCurrentChart(setTimeRange(mm, "24H"), symbols)
      [] msg.k = "3" -> loadCurrentChart(setTimeRange(mm, "7D"), symbols)
      [] msg.k = "4" -> loadCurrentChart(setTimeRange(mm, "30D"), symbols)
      [] msg.k = "r" ->
            LET r == refreshCurrentChart(mm, symbols)
            IN Ret(r.m, <<fetchQuotes>> \o r.cmds)
      [] msg.k = "c" -> Ret([mm EXCEPT !.chart = CycleChartType(@)], <<>>)

HandledKeys == {"q", "ctrl+c", "?", "tab", "1", "2", "3", "4", "r", "c"}

\* Update, the switch on the message for a hidden help overlay
UpdateMain(mm, msg, symbols) ==
    CASE msg.t = "mouse" /\ msg.y = mm.height - 1 -> UpdateFooterClick(mm, symbols)
      [] msg.t = "resize" -> UpdateTail(UpdateResize(mm, msg), msg, <<>>, symbols)
      [] msg.t = "key" /\ msg.k \in HandledKeys -> UpdateKey(mm, msg, symbols)
      [] msg.t = "tick" -> UpdateTail(mm, msg, <<fetchQuotes, waitForTick>>, symbols)
      [] msg.t = "quotes" ->
            LET r == UpdateQuotesMsg(mm, msg, symbols)
            IN UpdateTail(r.m, msg, r.cmds, symbols)
      [] msg.t = "retry" ->
            LET r == UpdateRetry(mm, msg, symbols)
            IN UpdateTail(r.m, msg, r.cmds, symbols)
      [] msg.t = "history" /\ msg.err.kind = "ratelimit" ->
            UpdateHistoryRateLimited(mm, msg, symbols)
      [] msg.t = "history" /\ msg.err.kind = "other" ->
            UpdateTail(UpdateHistoryError(mm, msg), msg, <<>>, symbols)
      [] msg.t = "history" /\ msg.err.kind = "none" ->
            UpdateTail(UpdateHistoryOk(mm, msg, symbols), msg, <<>>, symbols)
      [] OTHER -> UpdateTail(mm, msg, <<>>, symbols)

\* AppModel.Update
Update(mm, msg, symbols) ==
    IF mm.help THEN UpdateHelp(mm, msg) ELSE UpdateMain(mm, msg, symbols)

-----------------------------------------------------------------------------
(* data.fetch *)

\* http.StatusOK, http.StatusTooManyRequests
StatusOK == 200
StatusTooManyRequests == 429
\* defaultFetchOptions: MaxRetries, and BaseDelay (500ms) in microseconds
DefaultMaxRetries == 3
DefaultBaseDelay == 500000
\* the default of retryAfter, 60 * time.Second, in microseconds
DefaultRetryAfter == 60000000

Second == 1000000
\* the entries of time's unitMap that the header alphabet can spell, in microseconds
UnitOf(u) ==
    CASE u = <<"s">> -> Second
      [] u = <<"m", "s">> -> 1000
      [] u = <<"m">> -> 60 * Second
      [] OTHER -> 0

IsDigit(c) == c \in {"0", "1"}
DigitVal(c) == IF c = "1" THEN 1 ELSE 0

\* the longest prefix of s made of digits, as a length
RECURSIVE DigitRun(_)
DigitRun(s) == IF s # <<>> /\ IsDigit(Head(s)) THEN 1 + DigitRun(Tail(s)) ELSE 0

\* the longest prefix of s made of unit characters (neither "." nor a digit), as a length
RECURSIVE UnitRun(_)
UnitRun(s) ==
    IF s # <<>> /\ Head(s) # "." /\ ~IsDigit(Head(s)) THEN 1 + UnitRun(Tail(s)) ELSE 0

\* leadingInt on a run of digits
RECURSIVE DigitsVal(_)
DigitsVal(s) == IF s = <<>> THEN 0 ELSE DigitsVal(SubSeq(s, 1, Len(s) - 1)) * 10 + DigitVal(s[Len(s)])

RECURSIVE Pow10(_)
Pow10(n) == IF n = 0 THEN 1 ELSE 10 * Pow10(n - 1)

Drop(s, n) == SubSeq(s, n + 1, Len(s))

ParseError == [ok |-> FALSE, d |-> 0]

\* time.ParseDuration, the loop over the segments [0-9]*(\.[0-9]*)?[a-z]+ with the sum d
RECURSIVE ParseSegments(_, _)
ParseSegments(s, d) ==
    IF s = <<>> THEN [ok |-> TRUE, d |-> d]
    ELSE IF ~(Head(s) = "." \/ IsDigit(Head(s))) THEN ParseError
    ELSE LET np == DigitRun(s)
             s1 == Drop(s, np)
             dot == s1 # <<>> /\ Head(s1) = "."
             s2 == IF dot THEN Tail(s1) ELSE s1
             nf == IF dot THEN DigitRun(s2) ELSE 0
             s3 == Drop(s2, nf)
             nu == UnitRun(s3)
             unit == UnitOf(SubSeq(s3, 1, nu))
             v == DigitsVal(SubSeq(s, 1, np)) * unit
                    + (DigitsVal(SubSeq(s2, 1, nf)) * unit) \div Pow10(nf)
         IN IF np = 0 /\ nf = 0 THEN ParseError
            ELSE IF nu = 0 \/ unit = 0 THEN ParseError
            ELSE ParseSegments(Drop(s3, nu), d + v)

\* time.ParseDuration
ParseDuration(s) ==
    LET neg == s # <<>> /\ Head(s) = "-"
        t == IF s # <<>> /\ Head(s) \in {"-", "+"} THEN Tail(s) ELSE s
        r == ParseSegments(t, 0)
    IN IF t = <<"0">> THEN [ok |-> TRUE, d |-> 0]
       ELSE IF t = <<>> THEN ParseError
       ELSE IF r.ok /\ neg THEN [ok |-> TRUE, d |-> 0 - r.d]
       ELSE r

\* fetch, the 429 branch: the duration of the RateLimitError for a Retry-After header
RetryAfterOf(retryStr) ==
    IF retryStr # <<>> /\ ParseDuration(retryStr \o <<"s">>).ok
    THEN ParseDuration(retryStr \o <<"s">>).d
    ELSE DefaultRetryAfter

\* httpError.IsRetryable
IsRetryable(status) == status >= 500

defaultFetchOptions == [MaxRetries |-> DefaultMaxRetries, BaseDelay |-> DefaultBaseDelay]

RECURSIVE Pow2(_)
Pow2(n) == IF n <= 0 THEN 1 ELSE 2 * Pow2(n - 1)

\* a backoff that grows by BaseDelay per retry instead of doubling
BackoffDelayLinear(opts, attempt) == opts.BaseDelay * attempt

\* delay := opts.BaseDelay * time.Duration(1<<(attempt-1))
BackoffDelay(opts, attempt) == opts.BaseDelay * Pow2(attempt - 1)

NoResult == [kind |-> "none", n |-> 0, status |-> 0, d |-> 0, retryStr |-> <<>>]
NoCause == [kind |-> "none", n |-> 0, status |-> 0]

\* no call of fetch is running
fetchIdle == [pc |-> "idle", nilOpts |-> FALSE, opts |-> defaultFetchOptions, badURL |-> FALSE,
              attempt |-> 0,
              lastErr |-> NoCause, log |-> <<>>, ctxDone |-> FALSE, result |-> NoResult]

Requests(log) == Cardinality({i \in 1..Len(log) : log[i].e = "request"})

\* an assignment that keeps the error of the first failed attempt
SetLastErrOnce(g, cause) == IF g.lastErr.kind = "none" THEN cause ELSE g.lastErr

\* lastErr = err, lastErr = herr
SetLastErr(g, cause) == cause

\* the end of one pass of the loop body that ends in continue: lastErr is set, attempt++
\* and the loop test, and after the loop the error that wraps lastErr
Continue(g, cause, entry) ==
    LET lastErr == SetLastErr(g, cause) IN
    IF g.attempt + 1 <= g.opts.MaxRetries
    THEN [g EXCEPT !.attempt = @ + 1, !.lastErr = lastErr, !.log = Append(@, entry),
                   !.pc = "backoff"]
    ELSE [g EXCEPT !.attempt = @ + 1, !.lastErr = lastErr, !.log = Append(@, entry),
                   !.pc = "done",
                   !.result = [kind |-> "exhausted", n |-> lastErr.n,
                               status |-> lastErr.status, d |-> 0, retryStr |-> <<>>]]

Return(g, entry, result) ==
    [g EXCEPT !.log = Append(@, entry), !.pc = "done", !.result = result]

\* fetch, one pass of the loop body from http.NewRequestWithContext on, for the response
\* resp of the transport; n numbers the request
Attempt(g, resp) ==
    LET n == Requests(g.log) + 1
        entry == [e |-> "request", kind |-> resp.kind, status |-> resp.status, d |-> 0]
    IN CASE resp.kind \in {"transport", "canceled", "readerr"} ->
              Continue(g, [kind |-> resp.kind, n |-> n, status |-> 0], entry)
         [] resp.kind = "http" /\ resp.status = StatusTooManyRequests ->
              Return(g, entry, [kind |-> "ratelimit", n |-> n, status |-> resp.status,
                                d |-> RetryAfterOf(resp.retryAfter),
                                retryStr |-> resp.retryAfter])
         [] resp.kind = "http" /\ resp.status # StatusTooManyRequests
                               /\ resp.status # StatusOK ->
              IF IsRetryable(resp.status)
              THEN Continue(g, [kind |-> "http", n |-> n, status |-> resp.status], entry)
              ELSE Return(g, entry, [kind |-> "http", n |-> n, status |-> resp.status, d |-> 0,
                                     retryStr |-> <<>>])
         [] OTHER ->
              Return(g, entry, [kind |-> "ok", n |-> n, status |-> resp.status, d |-> 0,
                                retryStr |-> <<>>])

\* the options a caller passes: nil, or its own retry limit and base delay
MaxOptRetries == 2
MaxHeaderLen == 2
HeaderChars == {"1", ".", "m", "x", "-"}
Headers == UNION {[1..n -> HeaderChars] : n \in 0..MaxHeaderLen}
Statuses == {200, 204, 404, 429, 500, 503}
OptionSets ==
    {[nilOpts |-> TRUE, opts |-> defaultFetchOptions]}
      \cup {[nilOpts |-> FALSE, opts |-> [MaxRetries |-> r, BaseDelay |-> DefaultBaseDelay]]
              : r \in (0 - 1)..MaxOptRetries}

Response(kind, status, retryAfter) ==
    [kind |-> kind, status |-> status, retryAfter |-> retryAfter]

\* what client.Do and io.ReadAll can give one request
Responses(ctxDone) ==
    IF ctxDone THEN {Response("canceled", 0, <<>>)}
    ELSE {Response("transport", 0, <<>>)}
           \cup {Response("readerr", StatusOK, <<>>)}
           \cup {Response("http", st, <<>>) : st \in Statuses \ {StatusTooManyRequests}}
           \cup {Response("http", StatusTooManyRequests, h) : h \in Headers}

\* fetch is called: opts == nil takes defaultFetchOptions, and the loop test for attempt 0
FetchCall ==
    /\ f.pc = "idle"
    /\ \E o \in OptionSets, canceled \in BOOLEAN, bad \in BOOLEAN :
          f' = [f EXCEPT !.nilOpts = o.nilOpts, !.opts = o.opts, !.ctxDone = canceled,
                         !.badURL = bad,
                         !.pc = IF 0 <= o.opts.MaxRetries THEN "request" ELSE "done",
                         !.result = IF 0 <= o.opts.MaxRetries THEN NoResult
                                    ELSE [NoResult EXCEPT !.kind = "failed"]]
    /\ UNCHANGED <<cfg, m, pending, startup, quit, histIssued, rc>>

\* a backoff that only waits for the timer
FetchBackoffIgnoringCtx ==
    /\ f.pc = "backoff"
    /\ f' = [f EXCEPT !.pc = "request",
                      !.log = Append(@, [e |-> "sleep", kind |-> "", status |-> 0,
                                         d |-> BackoffDelay(f.opts, f.attempt)])]
    /\ UNCHANGED <<cfg, m, pending, startup, quit, histIssued, rc>>

\* the select before a retry: the context's Done channel, or the timer of the delay
FetchBackoff ==
    /\ f.pc = "backoff"
    /\ \E delay \in {BackoffDelay(f.opts, f.attempt)} :
          \/ /\ f.ctxDone
             /\ f' = [f EXCEPT !.pc = "done", !.result = [NoResult EXCEPT !.kind = "ctx"]]
          \/ /\ ~f.ctxDone \/ delay = 0
             /\ f' = [f EXCEPT !.pc = "request",
                               !.log = Append(@, [e |-> "sleep", kind |-> "", status |-> 0,
                                                  d |-> delay])]
    /\ UNCHANGED <<cfg, m, pending, startup, quit, histIssued, rc>>

\* one pass of the loop body after the backoff: http.NewRequestWithContext rejects a
\* malformed url and fetch returns its error; otherwise one request and its response
FetchAttempt ==
    /\ f.pc = "request"
    /\ IF f.badURL
       THEN f' = [f EXCEPT !.pc = "done", !.result = [NoResult EXCEPT !.kind = "request"]]
       ELSE \E resp \in Responses(f.ctxDone) : f' = Attempt(f, resp)
    /\ UNCHANGED <<cfg, m, pending, startup, quit, histIssued, rc>>

\* the caller's context is canceled while fetch runs
CtxCancel ==
    /\ f.pc \in {"request", "backoff"}
    /\ ~f.ctxDone
    /\ f' = [f EXCEPT !.ctxDone = TRUE]
    /\ UNCHANGED <<cfg, m, pending, startup, quit, histIssued, rc>>

NextFetch == FetchCall \/ FetchBackoff \/ FetchAttempt \/ CtxCancel

------------------------------------------------------------------------------
(* chart.Model.render: the price scale of the canvas and the columns drawn *)

\* candles of a series handed to render
MaxPoints == 3
\* closes are whole amounts 0..MaxClose
MaxClose == 3
\* canvas heights drawn
MaxChartH == 6
\* canvas widths drawn
MaxChartW == 22
\* the longest series handed to render: closes 1, 2, .. of a steady rise
MaxRampLen == 30

\* rows and columns render keeps for the header, the axes and the border
CanvasRowsOff == 8
CanvasColsOff == 14
\* the smallest canvas render draws
MinChartH == 4
MinChartW == 10

\* prices are counted in 1/PriceScale of a whole amount, which keeps 1% of a price
\* and 5% of a spread whole numbers
PriceScale == 2000

CloseSet == 0..MaxClose
Ramp(n) == [i \in 1..n |-> i]
SeriesSet == UNION {[1..n -> CloseSet] : n \in 1..MaxPoints}
                 \cup {Ramp(n) : n \in (MaxPoints + 1)..MaxRampLen}
\* chart.Model.height and chart.Model.width: one below the smallest canvas, and up
ChartHeights == (CanvasRowsOff + MinChartH - 1)..(CanvasRowsOff + MaxChartH)
ChartWidths == (CanvasColsOff + MinChartW - 1)..(CanvasColsOff + MaxChartW)
\* ChartLine, ChartArea, ChartCandle
ChartLine == 0
ChartArea == 1
ChartCandle == 2
ChartTypes == 0..(NumChartTypes - 1)

\* the loop over closes: a close lowers minP only when it is positive
RECURSIVE ScanMinMax(_, _, _, _)
ScanMinMax(closes, i, minP, maxP) ==
    IF i > Len(closes) THEN [minP |-> minP, maxP |-> maxP]
    ELSE LET p == closes[i] IN
         ScanMinMax(closes, i + 1, IF p > 0 /\ p < minP THEN p ELSE minP,
                                   IF p > maxP THEN p ELSE maxP)

\* minP, maxP and spread after the padding, in 1/PriceScale
PriceRange(closes) ==
    LET mm == ScanMinMax(closes, 1, closes[1], closes[1])
        raw == (mm.maxP - mm.minP) * PriceScale
        spread == IF raw = 0 THEN (mm.maxP * PriceScale) \div 100 ELSE raw
        minP == mm.minP * PriceScale - spread \div 20
        maxP == mm.maxP * PriceScale + spread \div 20
    IN [minP |-> minP, maxP |-> maxP, spread |-> maxP - minP]

\* int(a / b) for b > 0: the fraction is dropped, toward zero
IntOf(a, b) == IF a >= 0 THEN a \div b ELSE -((-a) \div b)

\* int() of a value that is not finite depends on the build: below every row or above
ConvOutcomes == {"low", "high"}

\* toRow: the canvas row of a price, row 0 on top
toRow(sc, chartH, conv, price) ==
    LET r == IF sc.spread = 0
             THEN (IF conv = "low" THEN -1 ELSE chartH)
             ELSE IntOf((sc.maxP - price) * (chartH - 1), sc.spread)
    IN IF r < 0 THEN 0 ELSE IF r >= chartH THEN chartH - 1 ELSE r

Min2(a, b) == IF a < b THEN a ELSE b
Max2(a, b) == IF a > b THEN a ELSE b

RECURSIVE PowMod(_, _)
\* 2^k modulo q
PowMod(k, q) == IF k = 0 THEN 1 % q ELSE (2 * PowMod(k - 1, q)) % q

RECURSIVE FloorLog2Up(_, _, _)
\* the largest a >= 0 with w * 2^a <= n, for n >= w
FloorLog2Up(n, w, a) == IF 2 * w <= n THEN FloorLog2Up(n, 2 * w, a + 1) ELSE a

RECURSIVE FloorLog2Down(_, _, _)
\* the largest a < 0 with 2^a <= n / w, for n < w
FloorLog2Down(n, w, a) == IF n < w THEN FloorLog2Down(2 * n, w, a - 1) ELSE a

\* the exponent of the float64 n / w: the largest a with 2^a <= n / w
FloorLog2Ratio(n, w) == IF n >= w THEN FloorLog2Up(n, w, 0) ELSE FloorLog2Down(n, w, 0)

RECURSIVE CeilLog2From(_, _)
CeilLog2From(i, e) == IF Pow2(e) < i THEN CeilLog2From(i, e + 1) ELSE e
\* the smallest E with i <= 2^E
CeilLog2(i) == CeilLog2From(i, 0)

\* the bits of a float64 significand
MantissaBits == 53

\* step := float64(n) / float64(chartW): the quotient is rounded to MantissaBits
\* bits, ties to even. With k = MantissaBits - 1 - FloorLog2Ratio(n, w) the float64 is
\* (n * 2^k + StepError(n, w)) / (w * 2^k).
StepError(n, w) ==
    LET k == MantissaBits - 1 - FloorLog2Ratio(n, w)
        r2 == (n * PowMod(k, 2 * w)) % (2 * w)
        odd == r2 >= w
        r == r2 % w
    IN IF r = 0 THEN 0
       ELSE IF 2 * r > w \/ (2 * r = w /\ odd) THEN w - r ELSE -r

\* idx := int(float64(col) * step): the product of two float64 is rounded to
\* MantissaBits bits before int() drops the fraction. Where col * n / w is a whole
\* number i and step was rounded down, the product lies below i and is rounded up
\* to i only if it is at most half a unit of the last place away
SampleFloat(col, n, w) ==
    LET i == (col * n) \div w
        err == StepError(n, w)
        t == CeilLog2(i) - FloorLog2Ratio(n, w) - 2
    IN IF (col * n) % w # 0 \/ i = 0 \/ err >= 0 THEN i
       ELSE IF (IF t >= 0 THEN col * (-err) <= w * Pow2(t)
                ELSE col * (-err) * Pow2(-t) <= w)
            THEN i ELSE i - 1

\* idx of column col: int(float64(col) * step), and n - 1 if that is past the data
SampleIndex(col, n, w) ==
    LET idx == SampleFloat(col, n, w) IN IF idx >= n THEN n - 1 ELSE idx

\* isUp of a column of ChartLine and ChartArea, by the element before idx in the series
IsUpAt(closes, idx) == idx = 0 \/ closes[idx + 1] >= closes[Max2(0, idx - 1) + 1]

\* the columns of ChartLine and ChartArea: the sampled index, its row and its colour
SampledColumns(closes, sc, chartH, chartW, conv) ==
    [c \in 0..(chartW - 1) |->
        LET idx == SampleIndex(c, Len(closes), chartW)
        IN [idx |-> idx, close |-> closes[idx + 1],
            row |-> toRow(sc, chartH, conv, closes[idx + 1] * PriceScale),
            isUp |-> IsUpAt(closes, idx)]]

\* m.data[i] for closes: a candle opens at the close before it
CandleAt(closes, i) ==
    LET open == IF i = 0 THEN closes[1] ELSE closes[i]
        close == closes[i + 1]
    IN [Open |-> open, Close |-> close, High |-> Max2(open, close), Low |-> Min2(open, close)]

RECURSIVE ScanHigh(_, _, _, _)
ScanHigh(closes, i, end, high) ==
    IF i >= end THEN high
    ELSE ScanHigh(closes, i + 1, end, Max2(high, CandleAt(closes, i).High))

RECURSIVE ScanLow(_, _, _, _)
ScanLow(closes, i, end, low) ==
    IF i >= end THEN low
    ELSE LET l == CandleAt(closes, i).Low
         IN ScanLow(closes, i + 1, end, IF l < low /\ l > 0 THEN l ELSE low)

\* candlesPerCol := max(1, n/chartW)
candlesPerCol(n, chartW) == Max2(1, n \div chartW)

\* the columns ChartCandle draws: the loop ends at the first column whose start is
\* past the data
CandleCols(n, chartW) == {c \in 0..(chartW - 1) : c * candlesPerCol(n, chartW) < n}

\* the candles [start, end) of a drawn column, and what is drawn for them
CandleColumns(closes, sc, chartH, chartW, conv) ==
    [c \in CandleCols(Len(closes), chartW) |->
        LET n == Len(closes)
            start == c * candlesPerCol(n, chartW)
            end == Min2(start + candlesPerCol(n, chartW), n)
            open == CandleAt(closes, start).Open
            close == CandleAt(closes, end - 1).Close
            high == ScanHigh(closes, start, end, CandleAt(closes, start).High)
            low == ScanLow(closes, start, end, CandleAt(closes, start).Low)
        IN [start |-> start, end |-> end, isUp |-> close >= open,
            rowHigh |-> toRow(sc, chartH, conv, high * PriceScale),
            rowLow |-> toRow(sc, chartH, conv, low * PriceScale),
            rowOpen |-> toRow(sc, chartH, conv, open * PriceScale),
            rowClose |-> toRow(sc, chartH, conv, close * PriceScale)]]

renderIdle == [pc |-> "idle", closes |-> <<>>, height |-> 0, width |-> 0, conv |-> "low",
               chartType |-> ChartLine]

\* View calls render for a chart that has data, no error and is not loading: one call
Render ==
    /\ rc.pc = "idle"
    /\ \E closes \in SeriesSet, h \in ChartHeights, w \in ChartWidths, conv \in ConvOutcomes,
          ct \in ChartTypes :
          /\ conv = "high" => PriceRange(closes).spread = 0
          /\ rc' = [pc |-> IF w - CanvasColsOff < MinChartW \/ h - CanvasRowsOff < MinChartH
                           THEN "small" ELSE "drawn",
                    closes |-> closes, height |-> h, width |-> w, conv |-> conv,
                    chartType |-> ct]
    /\ UNCHANGED <<cfg, m, pending, startup, quit, histIssued, f>>

NextChart == Render

-----------------------------------------------------------------------------
(* The runtime: the event loop hands one message at a time to Update and runs the
   commands it returns concurrently *)

SeqToBag(q) == [c \in {q[i] : i \in 1..Len(q)} |-> Cardinality({i \in 1..Len(q) : q[i] = c})]
Count(q, kind) == Cardinality({i \in 1..Len(q) : q[i].c = kind})
\* fetchAllHistory: one closure per symbol, not yet run; reqTr and tagTr are its two
\* reads of m.timeRange
startupNew(symbols) ==
    [i \in 1..Len(symbols) |-> [pc |-> "new", sym |-> symbols[i], reqTr |-> "", tagTr |-> ""]]

startupDone(symbols) ==
    [i \in 1..Len(symbols) |-> [pc |-> "done", sym |-> symbols[i], reqTr |-> "", tagTr |-> ""]]

\* what a provider call ends with: an error, or no error
Errors == {OtherError} \cup {RateLimitError(d) : d \in Delays}

\* the program after New and Init
InitApp ==
    /\ cfg \in [Symbols : WatchLists, DefaultRange : DefaultRanges]
    /\ m = New(cfg)
    /\ pending = SeqToBag(<<fetchQuotes, waitForTick>>)
    /\ startup = startupNew(cfg.Symbols)
    /\ quit = FALSE
    /\ histIssued = 0

Init == InitApp /\ f = fetchIdle /\ rc = renderIdle

\* the runtime numbers the history requests it starts, the startup requests being 0
Numbered(cmds, base) ==
    [i \in 1..Len(cmds) |->
        IF cmds[i].c = "history"
        THEN [cmds[i] EXCEPT !.id = base + Count(SubSeq(cmds, 1, i), "history")]
        ELSE cmds[i]]

\* the event loop takes msg and calls Update; rest is what else is still running.
\* tea.Quit ends the program and with it every command.
Deliver(msg, rest) ==
    \E r \in {Update(m, msg, cfg.Symbols)} :
    \E started \in {rest (+) SeqToBag(Numbered(r.cmds, histIssued))} :
       /\ ~quit
       /\ histIssued + Count(r.cmds, "history") <= MaxHistReq
       /\ CopiesIn(fetchQuotes, started) <= MaxQuotes
       /\ m' = r.m
       /\ histIssued' = histIssued + Count(r.cmds, "history")
       /\ pending' = IF r.quit THEN EmptyBag ELSE started
       /\ quit' = r.quit
       /\ UNCHANGED <<cfg, f, rc>>

\* the keys the user presses: "ctrl+c" is handled as "q", "2" and "4" as "1" and "3"
UserKeys == (HandledKeys \ {"c", "ctrl+c", "2", "4"}) \cup {"esc", "up", "down"}
MouseXs == {0, TermW - 1}
MouseYs == {1, 2, TermH - 1}

UserKey ==
    \E k \in UserKeys :
        /\ Deliver(KeyMsg(k), pending)
        /\ startup' = IF quit' THEN startupDone(cfg.Symbols) ELSE startup

UserMouse ==
    \E x \in MouseXs, y \in MouseYs : Deliver(MouseMsg(x, y), pending) /\ UNCHANGED startup

Resize ==
    Deliver(WindowSizeMsg(TermW, TermH), pending) /\ UNCHANGED startup

\* the ticker fires and the waiting command returns tickMsg
Tick ==
    /\ BagIn(waitForTick, pending)
    /\ Deliver(tickMsg, pending (-) SetToBag({waitForTick}))
    /\ UNCHANGED startup

\* a fetchQuotes command returns
QuotesArrived ==
    /\ BagIn(fetchQuotes, pending)
    /\ \E err \in {NoErr, OtherError} :
          Deliver(quotesMsg(err), pending (-) SetToBag({fetchQuotes}))
    /\ UNCHANGED startup

\* a fetchHistory(symbol, tr) command returns: the message carries the captured arguments
HistoryArrived ==
    \E c \in BagToSet(pending) :
        /\ c.c = "history"
        /\ \/ Deliver(historyMsg(c.sym, c.tr, Series(c.sym, c.tr, c.id), NoErr),
                      pending (-) SetToBag({c}))
           \/ \E err \in Errors :
                 Deliver(historyMsg(c.sym, c.tr, NoData, err), pending (-) SetToBag({c}))
        /\ UNCHANGED startup

\* the timer of a rate-limited history request fires
RetryHistoryDue ==
    \E c \in BagToSet(pending) :
        /\ c.c = "retry"
        /\ Deliver(retryHistoryMsg(c.sym, c.tr), pending (-) SetToBag({c}))
        /\ UNCHANGED startup

\* a closure of fetchAllHistory starts: it reads m.timeRange for the provider call
StartupCall ==
    \E i \in DOMAIN startup :
        /\ ~quit
        /\ startup[i].pc = "new"
        /\ startup' = [startup EXCEPT ![i].pc = "called", ![i].reqTr = m.timeRange]
        /\ UNCHANGED <<cfg, m, pending, quit, histIssued, f, rc>>

\* the provider call of the closure returns: it reads m.timeRange again for the message
StartupReturn ==
    \E i \in DOMAIN startup :
        /\ ~quit
        /\ startup[i].pc = "called"
        /\ startup' = [startup EXCEPT ![i].pc = "ready", ![i].tagTr = m.timeRange]
        /\ UNCHANGED <<cfg, m, pending, quit, histIssued, f, rc>>

\* the message of the closure reaches the event loop: it carries what the provider
\* returned for (sym, reqTr), tagged tagTr
StartupArrived ==
    \E i \in DOMAIN startup :
        LET t == startup[i] IN
        /\ t.pc = "ready"
        /\ \/ Deliver(historyMsg(t.sym, t.tagTr, Series(t.sym, t.reqTr, 0), NoErr), pending)
           \/ \E err \in Errors : Deliver(historyMsg(t.sym, t.tagTr, NoData, err), pending)
        /\ startup' = [startup EXCEPT ![i].pc = "done", ![i].reqTr = "", ![i].tagTr = ""]

Next ==
    \/ UserKey
    \/ UserMouse
    \/ Resize
    \/ Tick
    \/ QuotesArrived
    \/ HistoryArrived
    \/ RetryHistoryDue
    \/ StartupCall
    \/ StartupReturn
    \/ StartupArrived

Spec == Init /\ [][Next]_vars

\* one call of fetch, from the call to its return
SpecFetch == Init /\ [][NextFetch]_vars

\* the goroutine of fetch is scheduled, every request returns (the client has a timeout)
\* and every timer fires
SpecFetchFair == SpecFetch /\ WF_vars(FetchCall \/ FetchBackoff \/ FetchAttempt)

\* the runtime runs every command it was handed to its end and delivers its message:
\* the provider calls return, the timers fire, the event loop takes the messages
SpecFair ==
    /\ Spec
    /\ WF_vars(QuotesArrived)
    /\ WF_vars(HistoryArrived)
    /\ WF_vars(RetryHistoryDue)
    /\ WF_vars(StartupCall)
    /\ WF_vars(StartupReturn)
    /\ WF_vars(StartupArrived)

\* render alone, for every series and pane size of the bounds
SpecChart == Init /\ [][NextChart]_vars

-----------------------------------------------------------------------------
(* The messages Update can be handed in the current state *)

AllKeys == HandledKeys \cup {"esc", "up", "down"}

UserMsgs ==
    {KeyMsg(k) : k \in AllKeys}
      \cup {MouseMsg(x, y) : x \in MouseXs, y \in MouseYs}
      \cup {WindowSizeMsg(TermW, TermH)}

\* the historyMsg values the running history requests can end with
HistoryMsgs ==
    UNION {{historyMsg(c.sym, c.tr, Series(c.sym, c.tr, c.id), NoErr)}
             \cup {historyMsg(c.sym, c.tr, NoData, err) : err \in Errors}
           : c \in {c \in BagToSet(pending) : c.c = "history"}}
      \cup UNION {{historyMsg(startup[i].sym, startup[i].tagTr,
                              Series(startup[i].sym, startup[i].reqTr, 0), NoErr)}
                    \cup {historyMsg(startup[i].sym, startup[i].tagTr, NoData, err) : err \in Errors}
                  : i \in {i \in DOMAIN startup : startup[i].pc = "ready"}}

QuotesMsgs ==
    IF BagIn(fetchQuotes, pending) THEN {quotesMsg(NoErr), quotesMsg(OtherError)} ELSE {}

RetryMsgs == {retryHistoryMsg(c.sym, c.tr) : c \in {c \in BagToSet(pending) : c.c = "retry"}}

TickMsgs == IF BagIn(waitForTick, pending) THEN {tickMsg} ELSE {}

Handle(msg) == Update(m, msg, cfg.Symbols)

IsCurrent(mm, sym, tr) == SelectedSymbol(mm.watchlist, cfg.Symbols) = sym /\ mm.timeRange = tr

\* the chart pane shows the series data of (sym, tr): not loading, no error
Presents(c, sym, tr, data) ==
    c.symbol = sym /\ c.timeRange = tr /\ c.data = data /\ ~c.loading /\ c.err = NoErr

-----------------------------------------------------------------------------
(* Claims *)

NoFetch(cmds) == \A i \in 1..Len(cmds) : cmds[i].c \notin {"history", "quotes"}
Only(cmds, kind) == SelectSeq(cmds, LAMBDA c : c.c = kind)

\* C1: a user action that changes the selected symbol or the active range to a key that
\* is already in the history cache issues no history and no quotes request, and the chart
\* then presents the cached series of that key, not loading
C1_CacheHitNoNetwork ==
    \A msg \in UserMsgs :
        LET r == Handle(msg)
            sel == SelectedSymbol(r.m.watchlist, cfg.Symbols)
            tr == r.m.timeRange
        IN (~IsCurrent(m, sel, tr) /\ sel # "" /\ Cached(m, sel, tr))
           => /\ NoFetch(r.cmds)
              /\ Presents(r.m.chart, sel, tr, m.lastHistory[cacheKey(sel, tr)])

\* C4: a rate-limited historyMsg for (s, r) makes the chart present the cached series of
\* (s, r) as stale with the retry delay when (s, r) is cached and current, leaves the chart
\* alone when it is cached and not current, and presents an error when it is not cached
C4_StaleServing ==
    \A msg \in HistoryMsgs :
        msg.err.kind = "ratelimit" =>
            LET r == Handle(msg) IN
            IF Cached(m, msg.sym, msg.tr)
            THEN IF IsCurrent(m, msg.sym, msg.tr)
                 THEN /\ Presents(r.m.chart, msg.sym, msg.tr,
                                  m.lastHistory[cacheKey(msg.sym, msg.tr)])
                      /\ r.m.chart.stale
                      /\ r.m.chart.retryAfter = msg.err.d
                 ELSE r.m.chart = m.chart
            ELSE r.m.chart.err = msg.err /\ ~r.m.chart.loading

\* C5: every rate-limited historyMsg for (s, r) schedules exactly one retryHistoryMsg{s, r}
\* after its delay, and every retryHistoryMsg{s, r} issues exactly one history request for
\* (s, r), marking the chart loading exactly when (s, r) is still current
C5_RetryScheduled ==
    /\ \A msg \in HistoryMsgs :
          msg.err.kind = "ratelimit" =>
              Only(Handle(msg).cmds, "retry") = <<RetryTick(msg.sym, msg.tr, msg.err.d)>>
    /\ \A msg \in RetryMsgs :
          LET r == Handle(msg) IN
          /\ Only(r.cmds, "history") = <<fetchHistory(msg.sym, msg.tr)>>
          /\ r.m.chart = IF IsCurrent(m, msg.sym, msg.tr)
                         THEN SetLoading(m.chart, TRUE) ELSE m.chart

\* the step hands Update a successful historyMsg for key k, which is stored
StoresHistory(k) ==
    \E msg \in HistoryMsgs :
        /\ msg.err = NoErr /\ cacheKey(msg.sym, msg.tr) = k
        /\ m' = Handle(msg).m
        /\ m'.lastHistory[k] = msg.data

\* C6: the history cache starts empty; a key enters it, or changes its value, only in a
\* step that handles a successful historyMsg for exactly that key; no key ever leaves it
C6_CacheInvariant ==
    /\ DOMAIN m.lastHistory = {}
    /\ [][\A k \in DOMAIN m.lastHistory \cup DOMAIN m'.lastHistory :
            /\ k \in DOMAIN m'.lastHistory
            /\ (k \notin DOMAIN m.lastHistory \/ m'.lastHistory[k] # m.lastHistory[k])
                  => StoresHistory(k)]_vars

\* an entry written by a request made after startup, next to another entry
C6_Witness ==
    \E k \in DOMAIN m.lastHistory :
        m.lastHistory[k].v >= 1 /\ DOMAIN m.lastHistory # {k}

\* C7: every successful historyMsg{s, r, data} handed to Update sets the cache entry of
\* (s, r) to data, whatever the selection, the range, the pane and the overlay
C7_LastFetchWins ==
    \A msg \in HistoryMsgs :
        msg.err = NoErr =>
            LET c == Handle(msg).m.lastHistory IN
            cacheKey(msg.sym, msg.tr) \in DOMAIN c /\ c[cacheKey(msg.sym, msg.tr)] = msg.data

\* C8: handling a failed historyMsg (rate-limited or not) or a failed quotesMsg leaves
\* the history cache as it was
C8_FailuresKeepCache ==
    \A msg \in HistoryMsgs \cup QuotesMsgs :
        msg.err # NoErr => Handle(msg).m.lastHistory = m.lastHistory

\* a history failure was shown, a quotes failure recorded, with entries in the cache and
\* a history request still running
C8_Witness ==
    /\ DOMAIN m.lastHistory # {}
    /\ m.chart.err # NoErr
    /\ m.err # NoErr
    /\ HistoryMsgs # {}

\* C9: every cache entry stored under (s, r) holds the series the provider returned
\* for (s, r)
C9_EntriesHoldOwnSeries ==
    \A k \in DOMAIN m.lastHistory :
        m.lastHistory[k].sym = k[1] /\ m.lastHistory[k].tr = k[2]

\* C10: every tickMsg issues exactly one quotes request and one next tick wait, in every
\* state of the orchestrator, so that until tea.Quit exactly one tick wait is outstanding
C10_TickRearms ==
    /\ \A msg \in TickMsgs :
          LET r == Handle(msg) IN
          Only(r.cmds, "quotes") = <<fetchQuotes>> /\ Only(r.cmds, "tick") = <<waitForTick>>
    /\ ~quit => CopiesIn(waitForTick, pending) = 1

-----------------------------------------------------------------------------
(* Claims about data.fetch *)

\* a header that is a number of seconds: an optional sign, digits, at most one point
IsSeconds(h) ==
    LET t == IF h # <<>> /\ Head(h) = "-" THEN Tail(h) ELSE h
    IN /\ \A i \in 1..Len(t) : IsDigit(t[i]) \/ t[i] = "."
       /\ Cardinality({i \in 1..Len(t) : t[i] = "."}) <= 1
       /\ \E i \in 1..Len(t) : IsDigit(t[i])

\* the number of seconds h spells, in microseconds
SecondsOf(h) ==
    LET neg == Head(h) = "-"
        t == IF neg THEN Tail(h) ELSE h
        dots == {i \in 1..Len(t) : t[i] = "."}
        p == IF dots = {} THEN Len(t) + 1 ELSE CHOOSE i \in dots : TRUE
        whole == DigitsVal(SubSeq(t, 1, p - 1))
        frac == SubSeq(t, p + 1, Len(t))
        v == whole * Second + (DigitsVal(frac) * Second) \div Pow10(Len(frac))
    IN IF neg THEN 0 - v ELSE v

\* the Retry-After header read as seconds, 60 s when it is absent or no number
RetryAfterSeconds(h) == IF IsSeconds(h) THEN SecondsOf(h) ELSE 60 * Second

IsRequest(entry) == entry.e = "request"
IsRateLimited(entry) == IsRequest(entry) /\ entry.kind = "http" /\ entry.status = 429
IsSuccess(entry) == IsRequest(entry) /\ entry.kind = "http" /\ entry.status = 200
IsRetryableFailure(entry) ==
    /\ IsRequest(entry)
    /\ \/ entry.kind \in {"transport", "canceled", "readerr"}
       \/ entry.kind = "http" /\ entry.status >= 500

\* C2: a 429 response ends the call at once with a RateLimitError: nothing is logged after
\* that request, no request or sleep follows it, and the error's duration is the
\* Retry-After header read as seconds, or 60 s when the header is absent or unparseable
C2_RateLimitReturnsAtOnce ==
    \A i \in 1..Len(f.log) :
        IsRateLimited(f.log[i]) =>
            /\ i = Len(f.log)
            /\ f.pc = "done"
            /\ f.result.kind = "ratelimit"
            /\ f.result.n = Requests(f.log)
            /\ f.result.d = RetryAfterSeconds(f.result.retryStr)

\* the requests and sleeps of one call alternate, starting with a request, and the sleep
\* before the k-th retry is BaseDelay * 2^(k-1)
C3_Schedule ==
    \A i \in 1..Len(f.log) :
        IF i % 2 = 1 THEN IsRequest(f.log[i])
        ELSE f.log[i].e = "sleep" /\ f.log[i].d = f.opts.BaseDelay * (2 ^ (i \div 2 - 1))

\* N retryable failures and then a success, N <= MaxRetries: the call has returned the
\* body of response N+1 after exactly N+1 requests
C3_SuccessAfterRetries ==
    \A j \in 1..Len(f.log) :
        (/\ IsSuccess(f.log[j])
         /\ \A i \in 1..(j - 1) : IsRequest(f.log[i]) => IsRetryableFailure(f.log[i]))
        => /\ f.pc = "done"
           /\ f.result.kind = "ok"
           /\ f.result.n = (j + 1) \div 2
           /\ Requests(f.log) = (j + 1) \div 2
           /\ (j + 1) \div 2 <= f.opts.MaxRetries + 1

\* C3: fetch terminates, makes at most MaxRetries+1 requests, does not sleep before the
\* first request, sleeps BaseDelay * 2^(k-1) before the k-th retry, and after N retryable
\* failures followed by a success returns the body of response N+1 after N+1 requests
C3_BoundedRetries ==
    /\ [](/\ f.pc # "idle" => Requests(f.log) <= f.opts.MaxRetries + 1
          /\ C3_Schedule
          /\ C3_SuccessAfterRetries)
    /\ <>(f.pc = "done")

\* a call that failed three times, slept three times and then got its body
C3_Witness ==
    /\ f.pc = "done"
    /\ f.result.kind = "ok"
    /\ f.result.n = 4
    /\ Len(SelectSeq(f.log, LAMBDA e : e.e = "sleep")) = 3

-----------------------------------------------------------------------------
(* Claims about history failures, quotes and refresh *)

\* C11: a historyMsg for (s, r) that failed with an error other than a rate limit makes
\* the chart present the error when (s, r) is the current selection and range, and leaves
\* the chart pane as it was when (s, r) is not current
C11_HistoryErrorPaneLocal ==
    \A msg \in HistoryMsgs :
        msg.err.kind = "other" =>
            LET r == Handle(msg) IN
            IF IsCurrent(m, msg.sym, msg.tr)
            THEN r.m.chart.err = msg.err /\ ~r.m.chart.loading
            ELSE r.m.chart = m.chart

\* this step hands Update a historyMsg for key k that failed with an error other than a
\* rate limit
FatalHistoryStep(k) ==
    \/ \E c \in BagToSet(pending) :
          /\ c.c = "history" /\ cacheKey(c.sym, c.tr) = k
          /\ Deliver(historyMsg(c.sym, c.tr, NoData, OtherError), pending (-) SetToBag({c}))
          /\ UNCHANGED startup
    \/ \E i \in DOMAIN startup :
          /\ startup[i].pc = "ready" /\ cacheKey(startup[i].sym, startup[i].tagTr) = k
          /\ Deliver(historyMsg(startup[i].sym, startup[i].tagTr, NoData, OtherError), pending)
          /\ startup' = [startup EXCEPT ![i].pc = "done", ![i].reqTr = "", ![i].tagTr = ""]

\* the commands a tickMsg or a quotesMsg would make Update return in state mm with the
\* commands running in bag
AutoCmds(mm, bag) ==
    {Update(mm, msg, cfg.Symbols).cmds :
        msg \in (IF BagIn(waitForTick, bag) THEN {tickMsg} ELSE {})
                  \cup (IF BagIn(fetchQuotes, bag)
                        THEN {quotesMsg(NoErr), quotesMsg(OtherError)} ELSE {})}

\* C12: a historyMsg for (s, r) that failed with an error other than a rate limit
\* schedules no retryHistoryMsg, and the tickMsg or quotesMsg that follows it without a
\* user input issues no history request for (s, r)
C12_NoAutoRetryOfFatal ==
    [][\A k \in Keys :
          FatalHistoryStep(k) =>
              /\ \A c \in BagToSet(pending') : c.c = "retry" => BagIn(c, pending)
              /\ \A cmds \in AutoCmds(m', pending') :
                    \A i \in 1..Len(cmds) :
                        ~(cmds[i].c = "history" /\ cacheKey(cmds[i].sym, cmds[i].tr) = k)]_vars

-----------------------------------------------------------------------------
(* More claims about data.fetch *)

RequestsOf(log) == SelectSeq(log, IsRequest)

\* C13: when each of the MaxRetries+1 attempts ended in a retryable failure, fetch has
\* returned after exactly MaxRetries+1 requests, with no body and with an error that wraps
\* the cause of the last attempt
C13_ExhaustedRetries ==
    LET reqs == RequestsOf(f.log)
        n == f.opts.MaxRetries + 1
    IN (/\ f.pc # "idle"
        /\ Len(reqs) >= n
        /\ \A i \in 1..Len(reqs) : IsRetryableFailure(reqs[i]))
       => /\ f.pc = "done"
          /\ Len(reqs) = n
          /\ f.result.kind \in {"exhausted", "failed"}
          /\ n >= 1 => /\ f.result.kind = "exhausted"
                       /\ f.result.n = n
                       /\ f.lastErr.kind = reqs[n].kind
                       /\ reqs[n].kind = "http" => f.result.status = reqs[n].status

\* four attempts failed, the first with 500 and the last with 503, and fetch gave up
C13_Witness ==
    /\ f.pc = "done"
    /\ f.result.kind = "exhausted"
    /\ Len(RequestsOf(f.log)) = 4
    /\ RequestsOf(f.log)[1].status = 500
    /\ RequestsOf(f.log)[4].status = 503

\* the request logged at position i is the one fetch returned on, and nothing followed it
ReturnedOn(i) == i = Len(f.log) /\ f.pc = "done" /\ f.result.n = Requests(f.log)

\* C14: every response whose body was read is classified by its status: 2xx returns the
\* body, 429 returns a RateLimitError, a status >= 500 is retried while the budget lasts
\* (unless the context is canceled), and every other status is returned as an error at once, with no retry and no sleep
C14_Classification ==
    \A i \in 1..Len(f.log) :
        LET e == f.log[i] IN
        (IsRequest(e) /\ e.kind = "http") =>
            CASE e.status >= 200 /\ e.status <= 299 ->
                    ReturnedOn(i) /\ f.result.kind = "ok"
              [] e.status = 429 ->
                    ReturnedOn(i) /\ f.result.kind = "ratelimit"
              [] e.status >= 500 ->
                    (i = Len(f.log)) =>
                        \/ f.pc = "backoff"
                        \/ f.pc = "done" /\ f.result.kind = "ctx" /\ f.ctxDone
                        \/ /\ f.pc = "done" /\ f.result.kind = "exhausted"
                           /\ Requests(f.log) = f.opts.MaxRetries + 1
              [] OTHER ->
                    /\ ReturnedOn(i) /\ f.result.kind = "http"
                    /\ f.result.status = e.status

\* C15: when the context is canceled while fetch waits in a backoff, the next step of
\* fetch returns the context's error without a further sleep or request; and an attempt
\* started after the cancellation never succeeds: it is logged as canceled and no body is
\* returned
C15_Cancellation ==
    [][/\ (f.pc = "backoff" /\ f.ctxDone)
            => (f'.pc = "done" /\ f'.result.kind = "ctx" /\ f'.log = f.log)
       /\ (f.ctxDone /\ f.pc # "done")
            => /\ f'.result.kind # "ok"
               /\ \A i \in (Len(f.log) + 1)..Len(f'.log) : f'.log[i].kind = "canceled"]_vars

\* the context was canceled during the second backoff, after two requests went out
C15_Witness ==
    /\ f.pc = "done"
    /\ f.result.kind = "ctx"
    /\ Requests(f.log) = 2
    /\ Len(f.log) = 3
    /\ \A i \in 1..Len(f.log) : f.log[i].kind # "canceled"

\* C16: a failed quotesMsg records its error for the status line and changes nothing else:
\* the chart pane, the selection, the range and the items' quote fields stay as they were,
\* and no history or quotes request is issued
C16_QuoteFailureCosmetic ==
    \A msg \in QuotesMsgs :
        msg.err # NoErr =>
            LET r == Handle(msg) IN
            /\ r.m.err = msg.err
            /\ r.m.chart = m.chart
            /\ r.m.watchlist = m.watchlist
            /\ r.m.timeRange = m.timeRange
            /\ NoFetch(r.cmds)

\* C17: a successful quotesMsg with a symbol selected marks the chart loading and issues
\* exactly one history request for (selected symbol, active range) when that key is not
\* cached, and issues no history request and leaves the chart alone when it is cached
C17_QuotesFillCache ==
    \A msg \in QuotesMsgs :
        LET r == Handle(msg)
            sel == SelectedSymbol(m.watchlist, cfg.Symbols)
        IN (msg.err = NoErr /\ sel # "") =>
              IF Cached(m, sel, m.timeRange)
              THEN Only(r.cmds, "history") = <<>> /\ r.m.chart = m.chart
              ELSE /\ Only(r.cmds, "history") = <<fetchHistory(sel, m.timeRange)>>
                   /\ r.m.chart = SetLoading(m.chart, TRUE)

\* C18: the refresh key, with a symbol selected and the help overlay hidden, issues exactly
\* one quotes request and exactly one history request for (selected symbol, active range)
\* and marks the chart loading, cached or not; the cache is unchanged
C18_RefreshOverridesCache ==
    LET r == Handle(KeyMsg("r"))
        sel == SelectedSymbol(m.watchlist, cfg.Symbols)
    IN (~m.help /\ sel # "") =>
          /\ Only(r.cmds, "quotes") = <<fetchQuotes>>
          /\ Only(r.cmds, "history") = <<fetchHistory(sel, m.timeRange)>>
          /\ Len(r.cmds) = 2
          /\ r.m.chart = SetLoading(m.chart, TRUE)
          /\ r.m.lastHistory = m.lastHistory

\* a refresh was requested for a cached key: its quotes request and its history request
\* are running and the chart is loading
C18_Witness ==
    /\ ~m.help
    /\ Cached(m, SelectedSymbol(m.watchlist, cfg.Symbols), m.timeRange)
    /\ m.chart.loading
    /\ BagIn(fetchQuotes, pending)
    /\ \E c \in BagToSet(pending) :
          /\ c.c = "history" /\ c.id >= 1
          /\ c.sym = SelectedSymbol(m.watchlist, cfg.Symbols) /\ c.tr = m.timeRange

\* this step hands Update the successful historyMsg of the i-th closure of fetchAllHistory
StartupSuccessStep(i) ==
    /\ startup[i].pc = "ready"
    /\ Deliver(historyMsg(startup[i].sym, startup[i].tagTr,
                          Series(startup[i].sym, startup[i].reqTr, 0), NoErr), pending)
    /\ startup' = [startup EXCEPT ![i].pc = "done", ![i].reqTr = "", ![i].tagTr = ""]

\* C19: initialization issues exactly one quotes request, one tick wait and one history
\* request per watchlist symbol; each history request is made for the configured default
\* range; and each one that succeeds leaves an entry for (symbol, default range) in the cache
C19_StartupPriming ==
    /\ /\ pending = SeqToBag(<<fetchQuotes, waitForTick>>)
       /\ DOMAIN startup = 1..Len(cfg.Symbols)
       /\ \A i \in DOMAIN startup : startup[i].sym = cfg.Symbols[i] /\ startup[i].pc = "new"
    /\ [](\A i \in DOMAIN startup :
             startup[i].pc \in {"called", "ready"} => startup[i].reqTr = cfg.DefaultRange)
    /\ [][\A i \in DOMAIN startup :
             StartupSuccessStep(i)
                => cacheKey(startup[i].sym, cfg.DefaultRange) \in DOMAIN m'.lastHistory]_vars

------------------------------------------------------------------------------
(* Claims about the chart's price scale *)

\* the canvas height and the padded price range of the chart that was drawn
chartH == rc.height - CanvasRowsOff
Scale == PriceRange(rc.closes)
RowOf(price) == toRow(Scale, chartH, rc.conv, price)

\* the prices a row is asked for: the padded ends, one step beyond them, and every
\* quarter of a whole amount from below zero to above the largest close
ProbePrices ==
    {Scale.minP, Scale.maxP, Scale.minP - 1, Scale.maxP + 1}
        \cup {k * (PriceScale \div 4) : k \in (-4)..(4 * (MaxClose + 2))}

\* round(a / b) for b > 0: the nearest integer, halves away from zero
RoundOf(a, b) == IF a >= 0 THEN (2 * a + b) \div (2 * b) ELSE -((2 * (-a) + b) \div (2 * b))

Clamp(r, lo, hi) == IF r < lo THEN lo ELSE IF r > hi THEN hi ELSE r

\* the chart of a series whose padded spread is positive was drawn
DrawnWithSpread == rc.pc = "drawn" /\ Scale.spread > 0

\* the top of the padded range is row 0, its bottom is the last row, and every
\* price has a row of the canvas
C20_EndpointsOfToRow ==
    DrawnWithSpread =>
        /\ RowOf(Scale.maxP) = 0
        /\ RowOf(Scale.minP) = chartH - 1
        /\ \A p \in ProbePrices : RowOf(p) \in 0..(chartH - 1)

\* C20: for every series whose padded spread is positive and every canvas height
\* h >= 4, the row of the padded maximum is 0, the row of the padded minimum is
\* h - 1, every price has a row in 0..h-1, and the row of a price is
\* clamp(round((maxP - price) / spread * (h - 1)), 0, h - 1)
C20_RowMapping ==
    DrawnWithSpread =>
        /\ RowOf(Scale.maxP) = 0
        /\ RowOf(Scale.minP) = chartH - 1
        /\ \A p \in ProbePrices :
              /\ RowOf(p) \in 0..(chartH - 1)
              /\ RowOf(p) = Clamp(RoundOf((Scale.maxP - p) * (chartH - 1), Scale.spread),
                                  0, chartH - 1)

\* a chart of at least 4 rows was drawn for a series with two different closes
C20_Witness ==
    /\ DrawnWithSpread
    /\ chartH >= MinChartH
    /\ \E i, j \in DOMAIN rc.closes : rc.closes[i] # rc.closes[j]

------------------------------------------------------------------------------
(* Claims about the columns of the chart *)

chartW == rc.width - CanvasColsOff
\* the columns of the Line or Area chart that was drawn
Columns == SampledColumns(rc.closes, Scale, chartH, chartW, rc.conv)
\* floor(col * n / w)
SampleExact(col, n, w) == (col * n) \div w
StrictlyIncreasing(closes) == \A i \in 1..(Len(closes) - 1) : closes[i] < closes[i + 1]
DrawnAs(ct) == rc.pc = "drawn" /\ rc.chartType = ct

\* the rows of a strictly increasing series in Line mode never go down from left to right
C21_RowsNonIncreasing ==
    (DrawnAs(ChartLine) /\ StrictlyIncreasing(rc.closes)) =>
        \A c \in 1..(chartW - 1) : Columns[c].row <= Columns[c - 1].row

\* C21: in Line mode, for every strictly increasing series and every canvas of at
\* least the minimum width and height, column c samples the source index
\* floor(c * n / width), n - 1 at most, and the rows of the sampled closes of
\* columns 0..width-1 never increase from left to right (row 0 is the top)
C21_LineOrderPreserving ==
    (DrawnAs(ChartLine) /\ StrictlyIncreasing(rc.closes)) =>
        /\ \A c \in 0..(chartW - 1) :
              Columns[c].idx = Min2(SampleExact(c, Len(rc.closes), chartW), Len(rc.closes) - 1)
        /\ \A c \in 1..(chartW - 1) : Columns[c].row <= Columns[c - 1].row

\* a strictly increasing series of several closes was drawn in Line mode
C21_Witness ==
    /\ DrawnAs(ChartLine)
    /\ StrictlyIncreasing(rc.closes)
    /\ Len(rc.closes) >= 2

------------------------------------------------------------------------------
(* Claims about the watchlist's percent change *)

\* the closes a successful history result can carry: none, one, two and more, rising
\* and falling, the first close positive
HistoryShapes == {<<>>, <<3>>, <<2, 3>>, <<4, 3>>, <<1, 2, 4>>, <<5, 5, 1, 2>>}

\* the successful history results that can arrive, with every shape of series
SuccessMsgs ==
    {[msg EXCEPT !.data.closes = shape] :
        msg \in {h \in HistoryMsgs : h.err = NoErr}, shape \in HistoryShapes}

\* (last - first) / first * 100 of a series, as the fraction num / den
PercentChange(closes) ==
    [src |-> "history", num |-> (closes[Len(closes)] - closes[1]) * 100, den |-> closes[1]]

\* the rows of the watchlist after msg, given the rows before it
RowsAfterHistory(rows, after, msg) ==
    /\ Len(msg.data.closes) >= 2 => after[msg.sym].changePct = PercentChange(msg.data.closes)
    /\ Len(msg.data.closes) < 2 => after[msg.sym] = rows[msg.sym]
    /\ \A s \in SymbolSet \ {msg.sym} : after[s] = rows[s]

\* C22: every successful history result for a symbol s with at least 2 points, whatever
\* the selected symbol and the active range, sets the percent change of the row of s
\* to (lastClose - firstClose) / firstClose * 100 of its data; with fewer than 2
\* points the row of s is unchanged; the rows of other symbols are never changed by it
C22_HistoryPercentChange ==
    \A msg \in SuccessMsgs :
        RowsAfterHistory(m.watchlist.items, Handle(msg).m.watchlist.items, msg)

\* the same while the help overlay is hidden
C22_WhenHelpHidden ==
    ~m.help => C22_HistoryPercentChange

------------------------------------------------------------------------------
(* Claims about the buckets of the Candle chart *)

\* the columns of the Candle chart that was drawn
Buckets == CandleColumns(rc.closes, Scale, chartH, chartW, rc.conv)
BucketSize == candlesPerCol(Len(rc.closes), chartW)

\* the buckets start at index 0, each starts where the one before it ends, none is
\* empty or larger than BucketSize, and only the last one may be smaller
BucketsInOrder ==
    /\ 0 \in DOMAIN Buckets /\ Buckets[0].start = 0
    /\ \A c \in DOMAIN Buckets :
          /\ Buckets[c].start < Buckets[c].end
          /\ Buckets[c].end - Buckets[c].start <= BucketSize
          /\ c > 0 => (c - 1 \in DOMAIN Buckets /\ Buckets[c].start = Buckets[c - 1].end)
          /\ Buckets[c].end - Buckets[c].start < BucketSize => c + 1 \notin DOMAIN Buckets

\* every candle of the series is in exactly one bucket
BucketsCover ==
    \A i \in 0..(Len(rc.closes) - 1) :
        Cardinality({c \in DOMAIN Buckets : Buckets[c].start <= i /\ i < Buckets[c].end}) = 1

\* the buckets of a Candle chart are in order and disjoint
C23_BucketsInOrder == DrawnAs(ChartCandle) => BucketsInOrder

\* C23: in Candle mode, for a series of n candles and a canvas of w columns, the
\* buckets of max(1, n/w) candles, one per column, are disjoint, contiguous and in
\* order, only the last may be partial, and together they hold every index 0..n-1:
\* every candle of the series is drawn in exactly one column
C23_CandleBucketsPartition ==
    DrawnAs(ChartCandle) => (BucketsInOrder /\ BucketsCover)

\* the candles are all drawn unless the series is longer than the canvas is wide and
\* its length is no multiple of the width
C23_CoverUnlessRemainder ==
    DrawnAs(ChartCandle) =>
        (BucketsCover <=> ~(Len(rc.closes) > chartW /\ Len(rc.closes) % chartW # 0))

------------------------------------------------------------------------------
(* Claims about the colours of the Line and Area charts *)

DrawnSampled == rc.pc = "drawn" /\ rc.chartType \in {ChartLine, ChartArea}

\* C24: in Line and Area modes, for every series and width, column 0 is up, and a
\* column c >= 1 is up if and only if its sampled close is at least the sampled close
\* of column c - 1, the sample of the previous column and not the previous element
\* of the series
C24_UpDownBySample ==
    DrawnSampled =>
        /\ Columns[0].isUp
        /\ \A c \in 1..(chartW - 1) :
              Columns[c].isUp <=> Columns[c].close >= Columns[c - 1].close

\* the colours follow the previous column's sample for every series that never falls
C24_UpDownOfRisingSeries ==
    (DrawnSampled /\ \A i \in 1..(Len(rc.closes) - 1) : rc.closes[i] <= rc.closes[i + 1]) =>
        \A c \in 1..(chartW - 1) :
            Columns[c].isUp <=> Columns[c].close >= Columns[c - 1].close

------------------------------------------------------------------------------
(* Claims about what the chart pane presents *)

\* the chart pane presents a series: it has data, is not loading and shows no error
PresentsSeries(c) == Len(c.data.closes) > 0 /\ ~c.loading /\ c.err = NoErr

Selection == SelectedSymbol(m.watchlist, cfg.Symbols)

\* the series the pane presents is labelled with the selected symbol and the active range
C25_LabelIsCurrent ==
    (Selection # "" /\ PresentsSeries(m.chart)) =>
        (m.chart.symbol = Selection /\ m.chart.timeRange = m.timeRange)

\* C25: in every reachable state with a symbol selected, a chart pane that presents a
\* non-empty series (not loading, no error, fresh or stale) presents the series of
\* the selected symbol and the active range: its label and the series the provider
\* returned are those of the current key
C25_ChartShowsCurrentKey ==
    (Selection # "" /\ PresentsSeries(m.chart)) =>
        /\ m.chart.symbol = Selection /\ m.chart.timeRange = m.timeRange
        /\ m.chart.data.sym = Selection /\ m.chart.data.tr = m.timeRange

\* a presented series that is not the one of the current key is one that a closure of
\* fetchAllHistory returned, of the selected symbol
C25_OnlyStartupSeriesMisplaced ==
    (Selection # "" /\ PresentsSeries(m.chart)) =>
        \/ m.chart.data.sym = Selection /\ m.chart.data.tr = m.timeRange
        \/ m.chart.data.v = 0 /\ m.chart.data.sym = Selection

------------------------------------------------------------------------------
(* Claims about the loading state of the chart pane *)

\* a history request or a retry timer for the selected symbol and the active range is
\* running; a closure of fetchAllHistory for the selected symbol counts until its
\* message carries another range
Outstanding ==
    \/ \E c \in BagToSet(pending) :
          c.c \in {"history", "retry"} /\ c.sym = Selection /\ c.tr = m.timeRange
    \/ \E i \in DOMAIN startup :
          /\ startup[i].sym = Selection
          /\ \/ startup[i].pc \in {"new", "called"}
             \/ startup[i].pc = "ready" /\ startup[i].tagTr = m.timeRange

\* a loading pane has a request or a retry for the current key running
C26_LoadingHasRequest ==
    (~quit /\ m.chart.loading) => Outstanding

\* C26: whenever the chart pane is marked loading, a history request or a pending
\* retry for the selected symbol and the active range is outstanding, and, every
\* issued fetch delivering its result, the pane eventually leaves the loading state
\* (to data, stale or error) with no further user input needed
C26_LoadingResolves ==
    /\ []C26_LoadingHasRequest
    /\ (m.chart.loading ~> (~m.chart.loading \/ quit))

=============================================================================
